---------------------------- MODULE Spec2Model ----------------------------
(***************************************************************************)
(* Tower Control backend (main.py): a plugin that reads and toggles a      *)
(* fixed allowlist of systemd units by running systemctl.                  *)
(*                                                                         *)
(* Program text (unit names, tool output, error messages) is modelled as   *)
(* a sequence of one-character strings, so that strip, the unit-name       *)
(* pattern, the suffix default, key/value parsing and error formatting     *)
(* are computed character by character as the code computes them.          *)
(***************************************************************************)
EXTENDS Integers, Sequences, FiniteSets, TLC

VARIABLES
    sys,         \* the service manager: unit -> [active, ufs]
    toolExists,  \* os.path.exists(_SYSTEMCTL_BIN) at this moment
    conc,        \* whether the host dispatches calls concurrently
    calls,       \* slot -> the public call running in it
    prev,        \* what the most recent tool invocation established
    norm,        \* the normalization harness (NormSpec only)
    probe        \* a pure function applied to drawn inputs (StatusSpec, FormatSpec)

vars == <<sys, toolExists, conc, calls, prev, norm, probe>>

(***************************************************************************)
(* Literal text of the program.                                            *)
(***************************************************************************)
\* ".service"
SERVICE_SUFFIX ==
    <<".","s","e","r","v","i","c","e">>
\* "sshd.service"
SSHD_SERVICE ==
    <<"s","s","h","d",".","s","e","r","v","i","c","e">>
\* "SSH Server"
SSH_SERVER ==
    <<"S","S","H"," ","S","e","r","v","e","r">>
\* "bluetooth.service"
BLUETOOTH_SERVICE ==
    <<"b","l","u","e","t","o","o","t","h",".","s","e","r","v","i","c",
    "e">>
\* "Bluetooth"
BLUETOOTH ==
    <<"B","l","u","e","t","o","o","t","h">>
\* "/usr/bin/systemctl"
SYSTEMCTL_BIN ==
    <<"/","u","s","r","/","b","i","n","/","s","y","s","t","e","m","c","t",
    "l">>
\* "unit is required"
MSG_REQUIRED ==
    <<"u","n","i","t"," ","i","s"," ","r","e","q","u","i","r","e","d">>
\* "invalid unit name"
MSG_INVALID ==
    <<"i","n","v","a","l","i","d"," ","u","n","i","t"," ","n","a","m",
    "e">>
\* "unit is not allowlisted"
MSG_NOT_ALLOWLISTED ==
    <<"u","n","i","t"," ","i","s"," ","n","o","t"," ","a","l","l","o","w",
    "l","i","s","t","e","d">>
\* "unit is static and cannot be enabled/disabled"
MSG_STATIC ==
    <<"u","n","i","t"," ","i","s"," ","s","t","a","t","i","c"," ","a","n",
    "d"," ","c","a","n","n","o","t"," ","b","e"," ","e","n","a","b","l",
    "e","d","/","d","i","s","a","b","l","e","d">>
\* "systemctl not-found at "
MSG_TOOL_MISSING_hyphen ==
    <<"s","y","s","t","e","m","c","t","l"," ","n","o","t","-","f","o","u","n","d"," ","a","t"," ">>
\* "systemctl not found at "
MSG_TOOL_MISSING ==
    <<"s","y","s","t","e","m","c","t","l"," ","n","o","t"," ","f","o","u",
    "n","d"," ","a","t"," ">>
\* "systemctl "
FMT_SYSTEMCTL ==
    <<"s","y","s","t","e","m","c","t","l"," ">>
\* " failed"
FMT_FAILED ==
    <<" ","f","a","i","l","e","d">>
\* " | "
FMT_JOIN ==
    <<" ","|"," ">>
\* " (rc="
FMT_RC_OPEN ==
    <<" ","(","r","c","=">>
\* ")"
FMT_RC_CLOSE ==
    <<")">>
\* "show"
SHOW ==
    <<"s","h","o","w">>
\* "--property=LoadState,ActiveState,SubState,UnitFileState,Description"
SHOW_PROPERTIES ==
    <<"-","-","p","r","o","p","e","r","t","y","=","L","o","a","d","S","t",
    "a","t","e",",","A","c","t","i","v","e","S","t","a","t","e",",","S",
    "u","b","S","t","a","t","e",",","U","n","i","t","F","i","l","e","S",
    "t","a","t","e",",","D","e","s","c","r","i","p","t","i","o","n">>
\* "start"
START ==
    <<"s","t","a","r","t">>
\* "stop"
STOP ==
    <<"s","t","o","p">>
\* "enable"
ENABLE ==
    <<"e","n","a","b","l","e">>
\* "disable"
DISABLE ==
    <<"d","i","s","a","b","l","e">>
\* "unmask"
UNMASK ==
    <<"u","n","m","a","s","k">>
\* "--version"
VERSION ==
    <<"-","-","v","e","r","s","i","o","n">>
\* "not be found"
NOT_BE_FOUND ==
    <<"n","o","t"," ","b","e"," ","f","o","u","n","d">>
\* "not-found"
NOT_FOUND ==
    <<"n","o","t","-","f","o","u","n","d">>
\* "inactive"
INACTIVE ==
    <<"i","n","a","c","t","i","v","e">>
\* "dead"
DEAD ==
    <<"d","e","a","d">>
\* "unknown"
UNKNOWN ==
    <<"u","n","k","n","o","w","n">>
\* "active"
ACTIVE ==
    <<"a","c","t","i","v","e">>
\* "enabled"
ENABLED_STATE ==
    <<"e","n","a","b","l","e","d">>
\* "enabled-runtime"
ENABLED_RUNTIME ==
    <<"e","n","a","b","l","e","d","-","r","u","n","t","i","m","e">>
\* "static"
STATIC ==
    <<"s","t","a","t","i","c">>
\* "masked"
MASKED ==
    <<"m","a","s","k","e","d">>
\* "LoadState"
KEY_LoadState ==
    <<"L","o","a","d","S","t","a","t","e">>
\* "ActiveState"
KEY_ActiveState ==
    <<"A","c","t","i","v","e","S","t","a","t","e">>
\* "SubState"
KEY_SubState ==
    <<"S","u","b","S","t","a","t","e">>
\* "UnitFileState"
KEY_UnitFileState ==
    <<"U","n","i","t","F","i","l","e","S","t","a","t","e">>
\* "Description"
KEY_Description ==
    <<"D","e","s","c","r","i","p","t","i","o","n">>

(***************************************************************************)
(* Text helpers: str.strip, the "in" operator, str(int).                   *)
(***************************************************************************)
Letters ==
    {"a","b","c","d","e","f","g","h","i","j","k","l","m",
     "n","o","p","q","r","s","t","u","v","w","x","y","z",
     "A","B","C","D","E","F","G","H","I","J","K","L","M",
     "N","O","P","Q","R","S","T","U","V","W","X","Y","Z"}

Digits == {"0","1","2","3","4","5","6","7","8","9"}

\* str.strip() with no argument removes whitespace.
IsSpace(c) == c \in {" ", "\t", "\n", "\r", "\f"}

RECURSIVE lstrip(_)
lstrip(s) == IF s # <<>> /\ IsSpace(Head(s)) THEN lstrip(Tail(s)) ELSE s

RECURSIVE rstrip(_)
rstrip(s) ==
    IF s # <<>> /\ IsSpace(s[Len(s)])
    THEN rstrip(SubSeq(s, 1, Len(s) - 1))
    ELSE s

strip(s) == rstrip(lstrip(s))

\* sub in s
Contains(sub, s) ==
    \E i \in 1..(Len(s) - Len(sub) + 1) : SubSeq(s, i, i + Len(sub) - 1) = sub

DigitChar(d) ==
    CASE d = 0 -> "0" [] d = 1 -> "1" [] d = 2 -> "2" [] d = 3 -> "3"
      [] d = 4 -> "4" [] d = 5 -> "5" [] d = 6 -> "6" [] d = 7 -> "7"
      [] d = 8 -> "8" [] d = 9 -> "9"

RECURSIVE nat_str(_)
nat_str(n) ==
    IF n < 10 THEN <<DigitChar(n)>>
    ELSE nat_str(n \div 10) \o <<DigitChar(n % 10)>>

\* f"{rc}" of an int
int_str(n) == IF n < 0 THEN <<"-">> \o nat_str(0 - n) ELSE nat_str(n)

(***************************************************************************)
(* Results of code that may raise.  raised is <<>> or <<[type, msg]>>.     *)
(***************************************************************************)
Ok(v) == [raised |-> <<>>, value |-> v]

Raise(type, msg) == [raised |-> <<[type |-> type, msg |-> msg]>>, value |-> <<>>]

IsOk(r) == r.raised = <<>>

(***************************************************************************)
(* _UNIT_RE and _normalize_unit.                                           *)
(***************************************************************************)
\* the character class [A-Za-z0-9@._:-]
IsUnitChar(c) == c \in Letters \cup Digits \cup {"@", ".", "_", ":", "-"}

AllUnitChars(s) == \A i \in 1..Len(s) : IsUnitChar(s[i])

\* The pattern, matched against the whole of s.  In the raw string the
\* optional group is written \\. : a literal backslash followed by any
\* character but a newline, then one or more characters of the class.
UNIT_RE_full(s) ==
    \/ Len(s) >= 1 /\ AllUnitChars(s)
    \/ \E i \in 2..(Len(s) - 2) :
          /\ s[i] = "\\"
          /\ s[i + 1] # "\n"
          /\ AllUnitChars(SubSeq(s, 1, i - 1))
          /\ AllUnitChars(SubSeq(s, i + 2, Len(s)))

\* a pattern whose class has no dot
UNIT_RE_match_no_dot(s) ==
    /\ s # <<>>
    /\ \A i \in 1..Len(s) : IsUnitChar(s[i]) /\ s[i] # "."

\* _UNIT_RE.match(s): anchored at the start; $ matches at the end and
\* also just before a newline that ends the string.
UNIT_RE_match(s) ==
    \/ UNIT_RE_full(s)
    \/ /\ s # <<>>
       /\ s[Len(s)] = "\n"
       /\ UNIT_RE_full(SubSeq(s, 1, Len(s) - 1))

\* a normalization that appends the suffix to every name
normalize_unit_always_suffix(unit) ==
    LET u == strip(unit) IN
    IF u = <<>> THEN Raise("ValueError", MSG_REQUIRED)
    ELSE IF ~UNIT_RE_match(u) THEN Raise("ValueError", MSG_INVALID)
    ELSE Ok(u \o SERVICE_SUFFIX)

normalize_unit(unit) ==
    LET u == strip(unit) IN
    IF u = <<>> THEN Raise("ValueError", MSG_REQUIRED)
    ELSE IF ~UNIT_RE_match(u) THEN Raise("ValueError", MSG_INVALID)
    ELSE IF ~Contains(<<".">>, u) THEN Ok(u \o SERVICE_SUFFIX)
    ELSE Ok(u)

(***************************************************************************)
(* The allowlist.                                                          *)
(***************************************************************************)
DEFAULT_UNITS ==
    << [unit |-> SSHD_SERVICE, label |-> SSH_SERVER],
       [unit |-> BLUETOOTH_SERVICE, label |-> BLUETOOTH] >>

allowed_units == DEFAULT_UNITS

\* a check that lets every well-formed name through
is_allowed_any(unit) == unit = unit

is_allowed(unit) ==
    unit \in {allowed_units[i].unit : i \in 1..Len(allowed_units)}

\* normalization followed by the allowlist check, as each public operation
\* that takes a unit name begins
authorize(unit) ==
    LET n == normalize_unit(unit) IN
    IF ~IsOk(n) THEN n
    ELSE IF ~is_allowed(n.value) THEN Raise("ValueError", MSG_NOT_ALLOWLISTED)
    ELSE n

(***************************************************************************)
(* The service manager behind the tool: the text systemctl prints and the  *)
(* effect of its verbs.  These are the results the subprocess of           *)
(* _run_systemctl can hand back.                                           *)
(***************************************************************************)
\* "disabled"
DISABLED ==
    <<"d","i","s","a","b","l","e","d">>
\* "loaded"
LOADED ==
    <<"l","o","a","d","e","d">>
\* "running"
RUNNING ==
    <<"r","u","n","n","i","n","g">>
\* "cron.service"
CRON_SERVICE ==
    <<"c","r","o","n",".","s","e","r","v","i","c","e">>
\* "SSH"
DESC_SSHD ==
    <<"S","S","H">>
\* "Bluetooth service"
DESC_BLUETOOTH ==
    <<"B","l","u","e","t","o","o","t","h"," ","s","e","r","v","i","c",
    "e">>
\* "Cron"
DESC_CRON ==
    <<"C","r","o","n">>
\* "Unit could not be found."
ERR_COULD_NOT_BE_FOUND ==
    <<"U","n","i","t"," ","c","o","u","l","d"," ","n","o","t"," ","b","e",
    " ","f","o","u","n","d",".">>
\* "Failed to connect to bus"
ERR_BUS ==
    <<"F","a","i","l","e","d"," ","t","o"," ","c","o","n","n","e","c","t",
    " ","t","o"," ","b","u","s">>
\* "Access denied"
ERR_ACCESS_DENIED ==
    <<"A","c","c","e","s","s"," ","d","e","n","i","e","d">>
\* "See system logs"
OUT_HINT ==
    <<"S","e","e"," ","s","y","s","t","e","m"," ","l","o","g","s">>
\* "[Errno 13] Permission denied"
ERR_SPAWN ==
    <<"[","E","r","r","n","o"," ","1","3","]"," ","P","e","r","m","i","s",
    "s","i","o","n"," ","d","e","n","i","e","d">>
\* "systemd 255\n+PAM"
OUT_VERSION ==
    <<"s","y","s","t","e","m","d"," ","2","5","5","\n","+","P","A","M">>
\* "deck"
USER_DECK ==
    <<"d","e","c","k">>
\* "/home/deck"
HOME_DECK ==
    <<"/","h","o","m","e","/","d","e","c","k">>

\* a unit the service manager does not know
Absent == [loaded |-> FALSE, active |-> FALSE, ufs |-> <<>>]

UnitFileStates == {ENABLED_STATE, DISABLED, STATIC, MASKED}

UnitStates ==
    {Absent} \cup
    {[loaded |-> TRUE, active |-> a, ufs |-> f] :
        a \in BOOLEAN, f \in UnitFileStates}

ManagedUnits == {SSHD_SERVICE, BLUETOOTH_SERVICE}

UnitState(s, u) == IF u \in DOMAIN s THEN s[u] ELSE Absent

Description(u) ==
    IF u = SSHD_SERVICE THEN DESC_SSHD
    ELSE IF u = BLUETOOTH_SERVICE THEN DESC_BLUETOOTH
    ELSE DESC_CRON

KV(k, v) == k \o <<"=">> \o v \o <<"\n">>

\* stdout of: systemctl show <u> --property=LoadState,...,Description
ShowText(s, u) ==
    LET st == UnitState(s, u) IN
    IF st.loaded
    THEN KV(KEY_LoadState, LOADED)
         \o KV(KEY_ActiveState, IF st.active THEN ACTIVE ELSE INACTIVE)
         \o KV(KEY_SubState, IF st.active THEN RUNNING ELSE DEAD)
         \o KV(KEY_UnitFileState, st.ufs)
         \o KV(KEY_Description, Description(u))
    ELSE KV(KEY_LoadState, NOT_FOUND)
         \o KV(KEY_ActiveState, INACTIVE)
         \o KV(KEY_SubState, DEAD)
         \o KV(KEY_UnitFileState, <<>>)
         \o KV(KEY_Description, u)

Proc(rc, out, err, post) == [rc |-> rc, out |-> out, err |-> err, post |-> post]

\* a verb that fails at the tool level leaves the service manager as it was
ToolFailures(s) ==
    { Proc(1, <<>>, <<>>, s),
      Proc(2, OUT_HINT \o <<"\n">>, <<>>, s),
      Proc(3, ERR_ACCESS_DENIED \o <<"\n">>, ERR_ACCESS_DENIED \o <<"\n">>, s),
      Proc(4, OUT_HINT \o <<"\n">>, ERR_ACCESS_DENIED \o <<"\n">>, s) }

\* a start or stop that exits zero and changes nothing
SetActive_noop(s, u, a) == s

SetActive(s, u, a) == [s EXCEPT ![u].active = a]

SetUfs(s, u, f) == [s EXCEPT ![u].ufs = f]

\* what the process may print and return, and the service manager's state
\* after it, for "systemctl --no-pager <args>"
Tool(s, args) ==
    LET verb == args[1]
        u == IF Len(args) >= 2 THEN args[2] ELSE <<>>
        st == UnitState(s, u)
    IN
    IF verb = VERSION
    THEN { Proc(0, OUT_VERSION \o <<"\n">>, <<>>, s),
           Proc(1, <<>>, ERR_BUS \o <<"\n">>, s) }
    ELSE IF verb = SHOW
    THEN { Proc(0, ShowText(s, u), <<>>, s),
           Proc(1, <<>>, ERR_BUS \o <<"\n">>, s) }
         \cup (IF st.loaded THEN {}
               ELSE {Proc(1, <<>>, ERR_COULD_NOT_BE_FOUND \o <<"\n">>, s)})
    ELSE IF ~st.loaded
    THEN {Proc(5, <<>>, ERR_COULD_NOT_BE_FOUND \o <<"\n">>, s)}
    ELSE ToolFailures(s) \cup
         (IF verb = START THEN {Proc(0, <<>>, <<>>, SetActive(s, u, TRUE))}
          ELSE IF verb = STOP THEN {Proc(0, <<>>, <<>>, SetActive(s, u, FALSE))}
          ELSE IF verb = ENABLE
          THEN (IF st.ufs = MASKED THEN {}
                ELSE IF st.ufs = STATIC THEN {Proc(0, <<>>, <<>>, s)}
                ELSE {Proc(0, <<>>, <<>>, SetUfs(s, u, ENABLED_STATE))})
          ELSE IF verb = DISABLE
          THEN {Proc(0, <<>>, <<>>,
                     IF st.ufs = ENABLED_STATE THEN SetUfs(s, u, DISABLED) ELSE s)}
          ELSE IF verb = UNMASK
          THEN {Proc(0, <<>>, <<>>,
                     IF st.ufs = MASKED THEN SetUfs(s, u, DISABLED) ELSE s)}
          ELSE {})

(***************************************************************************)
(* _systemctl_exists, _run_systemctl.                                      *)
(***************************************************************************)
\* a check that always finds the tool
systemctl_exists_always == TRUE

systemctl_exists == SYSTEMCTL_BIN # <<>> /\ toolExists

\* The outcomes of one call of _run_systemctl(args) in the current state:
\* the synthesized result when the path does not exist; otherwise either
\* create_subprocess_exec raises, or the process runs and its output is
\* decoded and stripped.
run_systemctl(args) ==
    IF ~systemctl_exists
    THEN {[kind |-> "missing", rc |-> 127, out |-> <<>>,
           err |-> MSG_TOOL_MISSING \o SYSTEMCTL_BIN, exc |-> <<>>,
           post |-> sys]}
    ELSE {[kind |-> "raised", rc |-> 0 - 1, out |-> <<>>, err |-> <<>>,
           exc |-> ERR_SPAWN, post |-> sys]}
         \cup
         {[kind |-> "ran", rc |-> p.rc, out |-> strip(p.out),
           err |-> strip(p.err), exc |-> <<>>, post |-> p.post] :
             p \in Tool(sys, args)}

\* the record of one invocation kept in a call's log: its arguments,
\* whether the path existed when it was made, and what it handed back
Invocation(args, o) ==
    [verb |-> args[1],
     unit |-> IF Len(args) >= 2 THEN <<args[2]>> ELSE <<>>,
     path_exists |-> toolExists,
     kind |-> o.kind,
     rc |-> o.rc,
     out |-> o.out,
     err |-> o.err]

(***************************************************************************)
(* _parse_kv_lines and the dict it builds.                                 *)
(***************************************************************************)
IsLineBreak(c) == c \in {"\n", "\r", "\f"}

MinOf(S) == CHOOSE i \in S : \A j \in S : i <= j

MaxOf(S) == CHOOSE i \in S : \A j \in S : i >= j

RECURSIVE splitlines(_)
splitlines(s) ==
    IF s = <<>> THEN <<>>
    ELSE LET brk == {i \in 1..Len(s) : IsLineBreak(s[i])} IN
         IF brk = {} THEN <<s>>
         ELSE <<SubSeq(s, 1, MinOf(brk) - 1)>>
              \o splitlines(SubSeq(s, MinOf(brk) + 1, Len(s)))

\* The dict as the sequence of its assignments <<key, value>>, in order.
RECURSIVE parse_lines(_)
parse_lines(lines) ==
    IF lines = <<>> THEN <<>>
    ELSE LET line == Head(lines)
             eqs == {i \in 1..Len(line) : line[i] = "="}
         IN IF eqs = {} THEN parse_lines(Tail(lines))
            ELSE << <<strip(SubSeq(line, 1, MinOf(eqs) - 1)),
                      strip(SubSeq(line, MinOf(eqs) + 1, Len(line)))>> >>
                 \o parse_lines(Tail(lines))

parse_kv_lines(text) == parse_lines(splitlines(text))

HasKey(data, k) == \E i \in 1..Len(data) : data[i][1] = k

\* a dict in which the first assignment to a key is the one kept
Lookup_first(data, k) == data[MinOf({i \in 1..Len(data) : data[i][1] = k})][2]

\* data[k]: the last assignment to k
Lookup(data, k) == data[MaxOf({i \in 1..Len(data) : data[i][1] = k})][2]

\* data.get(k, default)
dict_get(data, k, default) == IF HasKey(data, k) THEN Lookup(data, k) ELSE default

(***************************************************************************)
(* Status records.  description is <<>> for None, else <<text>>.           *)
(***************************************************************************)
NotFoundStatus(unit) ==
    [unit |-> unit,
     exists |-> FALSE,
     active |-> FALSE,
     activeState |-> INACTIVE,
     subState |-> DEAD,
     unitFileState |-> NOT_FOUND,
     enabled |-> FALSE,
     canToggleEnable |-> FALSE,
     description |-> <<>>,
     loadState |-> NOT_FOUND]

\* a derivation that also hard-disables the toggle for masked units
ParsedStatus_masked_fixed(unit, out) ==
    LET data == parse_kv_lines(out)
        load_state == dict_get(data, KEY_LoadState, UNKNOWN)
        active_state == dict_get(data, KEY_ActiveState, UNKNOWN)
        sub_state == dict_get(data, KEY_SubState, UNKNOWN)
        unit_file_state == dict_get(data, KEY_UnitFileState, UNKNOWN)
    IN
    [unit |-> unit,
     exists |-> load_state # NOT_FOUND,
     active |-> active_state = ACTIVE,
     activeState |-> active_state,
     subState |-> sub_state,
     unitFileState |-> unit_file_state,
     enabled |-> unit_file_state \in {ENABLED_STATE, ENABLED_RUNTIME},
     canToggleEnable |-> unit_file_state \notin {STATIC, MASKED},
     description |-> IF HasKey(data, KEY_Description)
                     THEN <<Lookup(data, KEY_Description)>> ELSE <<>>,
     loadState |-> load_state]

ParsedStatus(unit, out) ==
    LET data == parse_kv_lines(out)
        load_state == dict_get(data, KEY_LoadState, UNKNOWN)
        active_state == dict_get(data, KEY_ActiveState, UNKNOWN)
        sub_state == dict_get(data, KEY_SubState, UNKNOWN)
        unit_file_state == dict_get(data, KEY_UnitFileState, UNKNOWN)
    IN
    [unit |-> unit,
     exists |-> load_state # NOT_FOUND,
     active |-> active_state = ACTIVE,
     activeState |-> active_state,
     subState |-> sub_state,
     unitFileState |-> unit_file_state,
     enabled |-> unit_file_state \in {ENABLED_STATE, ENABLED_RUNTIME},
     canToggleEnable |-> unit_file_state # STATIC,
     description |-> IF HasKey(data, KEY_Description)
                     THEN <<Lookup(data, KEY_Description)>> ELSE <<>>,
     loadState |-> load_state]

\* what _get_unit_status makes of the show invocation's result
unit_status(unit, rc, out, err) ==
    IF /\ rc # 0
       /\ out = <<>>
       /\ (Contains(NOT_BE_FOUND, err) \/ Contains(NOT_FOUND, err))
    THEN NotFoundStatus(unit)
    ELSE ParsedStatus(unit, out)

\* the projection get_service_status returns
service_status(status) ==
    [unit |-> status.unit,
     exists |-> status.exists,
     active |-> status.active,
     activeState |-> status.activeState,
     subState |-> status.subState,
     unitFileState |-> status.unitFileState,
     enabled |-> status.enabled,
     canToggleEnable |-> status.canToggleEnable,
     description |-> status.description,
     loadState |-> status.loadState]

\* the record get_services appends for an allowlist entry
service_entry(entry, status) ==
    [unit |-> status.unit,
     label |-> entry.label,
     exists |-> status.exists,
     active |-> status.active,
     activeState |-> status.activeState,
     subState |-> status.subState,
     unitFileState |-> status.unitFileState,
     enabled |-> status.enabled,
     canToggleEnable |-> status.canToggleEnable,
     description |-> status.description,
     loadState |-> status.loadState]

(***************************************************************************)
(* _format_systemctl_error, _with_error.                                   *)
(***************************************************************************)
RECURSIVE join(_, _)
join(sep, bits) ==
    IF Len(bits) = 1 THEN bits[1]
    ELSE bits[1] \o sep \o join(sep, Tail(bits))

\* a formatter that leaves the exit code out
format_systemctl_error_no_rc(action, unit, rc, out, err) ==
    IF err # <<>> THEN err
    ELSE IF out # <<>> THEN out
    ELSE FMT_SYSTEMCTL \o action \o FMT_FAILED

\* a formatter that puts stdout before stderr
format_systemctl_error_out_first(action, unit, rc, out, err) ==
    LET bits1 == IF out # <<>> THEN <<out>> ELSE <<>>
        bits == IF err # <<>> /\ ~(\E i \in 1..Len(bits1) : bits1[i] = err)
                THEN Append(bits1, err) ELSE bits1
        details == IF bits # <<>> THEN join(FMT_JOIN, bits)
                   ELSE FMT_SYSTEMCTL \o action \o FMT_FAILED
    IN details \o FMT_RC_OPEN \o int_str(rc) \o FMT_RC_CLOSE

format_systemctl_error(action, unit, rc, out, err) ==
    LET bits1 == IF err # <<>> THEN <<err>> ELSE <<>>
        bits == IF out # <<>> /\ ~(\E i \in 1..Len(bits1) : bits1[i] = out)
                THEN Append(bits1, out) ELSE bits1
        details == IF bits # <<>> THEN join(FMT_JOIN, bits)
                   ELSE FMT_SYSTEMCTL \o action \o FMT_FAILED
    IN details \o FMT_RC_OPEN \o int_str(rc) \o FMT_RC_CLOSE

with_error(payload, error) ==
    [f \in DOMAIN payload \cup {"error"} |->
        IF f = "error" THEN error ELSE payload[f]]

(***************************************************************************)
(* _get_unit_status and get_service_status as they run inside a step: the  *)
(* set of their outcomes.  Each outcome carries what was raised (if        *)
(* anything), the status, the invocations made and the service manager's   *)
(* state afterwards.                                                       *)
(***************************************************************************)
Fetched(raised, status, inv, post) ==
    [raised |-> raised, status |-> status, inv |-> inv, post |-> post]

get_unit_status(unit) ==
    LET n == normalize_unit(unit)
        args == <<SHOW, n.value, SHOW_PROPERTIES>>
    IN
    IF ~IsOk(n) THEN {Fetched(n.raised, <<>>, <<>>, sys)}
    ELSE { IF o.kind = "raised"
           THEN Fetched(<<[type |-> "OSError", msg |-> o.exc]>>, <<>>,
                        <<Invocation(args, o)>>, o.post)
           ELSE Fetched(<<>>, <<unit_status(n.value, o.rc, o.out, o.err)>>,
                        <<Invocation(args, o)>>, o.post) :
             o \in run_systemctl(args) }

get_service_status(unit) ==
    LET a == authorize(unit) IN
    IF ~IsOk(a) THEN {Fetched(a.raised, <<>>, <<>>, sys)}
    ELSE { IF f.raised # <<>> THEN f
           ELSE Fetched(<<>>, <<service_status(f.status[1])>>, f.inv, f.post) :
             f \in get_unit_status(a.value) }

(***************************************************************************)
(* Public calls.  A call occupies a slot from its dispatch to its return;  *)
(* it takes one step per tool invocation (its only suspension points),     *)
(* each step running the code up to the next invocation.                   *)
(***************************************************************************)
Slots == {1, 2}

\* arguments callers pass for a unit name
ARG_SSHD_PADDED == <<" ","s","s","h","d"," ">>

ARG_INJECTION == <<"f","o","o",";"," ","r","m"," ","-","r","f"," ","/">>

ARG_BACKSLASH == <<"a","\\",";","b">>

CallArgs ==
    { ARG_SSHD_PADDED, BLUETOOTH_SERVICE,
      <<>>, <<" ">>, CRON_SERVICE, ARG_INJECTION, ARG_BACKSLASH }

\* os.getuid(), os.geteuid(), USER and HOME of the hosting process
Identities ==
    { [uid |-> 0, euid |-> 0, user |-> <<>>, home |-> <<>>],
      [uid |-> 1000, euid |-> 1000, user |-> <<USER_DECK>>,
       home |-> <<HOME_DECK>>] }

Idle ==
    [op |-> "idle", pc |-> "idle", arg |-> <<>>, unit |-> <<>>,
     flag |-> FALSE, action |-> <<>>, step |-> <<>>,
     rc |-> 0, out |-> <<>>, err |-> <<>>,
     current |-> <<>>, exc |-> <<>>, idx |-> 0, services |-> <<>>,
     ident |-> <<>>, inv |-> <<>>, after |-> <<>>,
     interleaved |-> FALSE, result |-> <<>>, raised |-> <<>>]

Mutations == {"set_service_running", "set_service_enabled"}

\* every invocation of the call ran and exited 0
Clean(r) == \A i \in 1..Len(r.inv) : r.inv[i].kind = "ran" /\ r.inv[i].rc = 0

\* what a tool invocation leaves established for the next one: a mutation
\* call that has just completed with every invocation successful
Summary(r) ==
    IF r.op \in Mutations /\ r.pc = "done" /\ r.raised = <<>> /\ Clean(r)
    THEN <<[op |-> r.op, unit |-> r.unit, flag |-> r.flag]>>
    ELSE <<>>

\* the host dispatches into the lowest free slot, one call at a time
\* unless it dispatches concurrently
Dispatch(c) ==
    /\ calls[c].op = "idle"
    /\ \A d \in Slots : d < c => calls[d].op # "idle"
    /\ conc \/ \A d \in Slots : calls[d].op = "idle"

\* a step of call c that ends in call record r, having made the
\* invocations inv and left the service manager in state post; a call
\* that awaits its status re-fetch meanwhile has had another call's
\* invocation run since its own
Commit(c, r, inv, post) ==
    /\ calls' = [d \in Slots |->
                    IF d = c THEN [r EXCEPT !.inv = calls[c].inv \o inv]
                    ELSE IF inv # <<>> /\ calls[d].pc = "refetch"
                    THEN [calls[d] EXCEPT !.interleaved = TRUE]
                    ELSE calls[d]]
    /\ sys' = post
    /\ prev' = IF inv = <<>> THEN prev
               ELSE Summary([r EXCEPT !.inv = calls[c].inv \o inv])
    /\ UNCHANGED <<toolExists, conc, norm, probe>>

\* an exception reaches the caller
Propagate(r, raised) == [r EXCEPT !.pc = "done", !.raised = raised]

\* the call returns value v
Returns(r, v) == [r EXCEPT !.pc = "done", !.result = <<v>>]

\* the entry of the operations that take a unit name
Enter(c, op, arg, flag, action, pc) ==
    LET a == authorize(arg)
        r == [Idle EXCEPT !.op = op, !.arg = <<arg>>, !.flag = flag]
    IN
    /\ Dispatch(c)
    /\ calls' = [calls EXCEPT ![c] =
                    IF IsOk(a)
                    THEN [r EXCEPT !.pc = pc, !.unit = a.value,
                                   !.action = action]
                    ELSE Propagate(r, a.raised)]
    /\ UNCHANGED <<sys, toolExists, conc, prev, norm, probe>>

At(c, op, pc) == calls[c].op = op /\ calls[c].pc = pc

(*------------------------------ get_services ----------------------------*)
call_get_services(c) ==
    /\ Dispatch(c)
    /\ calls' = [calls EXCEPT ![c] =
                    IF Len(allowed_units) = 0
                    THEN Returns([Idle EXCEPT !.op = "get_services"], <<>>)
                    ELSE [Idle EXCEPT !.op = "get_services",
                                      !.pc = "loop", !.idx = 1]]
    /\ UNCHANGED <<sys, toolExists, conc, prev, norm, probe>>

\* a list that leaves out the units that were not found
append_service_if_exists(services, entry, status) ==
    IF status.exists THEN Append(services, service_entry(entry, status))
    ELSE services

\* services.append({...}) for an allowlist entry and its status
append_service(services, entry, status) ==
    Append(services, service_entry(entry, status))

\* one iteration of the loop over the allowlist
get_services_loop(c) ==
    /\ At(c, "get_services", "loop")
    /\ LET r == calls[c]
           entry == allowed_units[r.idx]
       IN \E f \in get_unit_status(entry.unit) :
            IF f.raised # <<>>
            THEN Commit(c, Propagate(r, f.raised), f.inv, f.post)
            ELSE LET services == append_service(r.services, entry,
                                                f.status[1])
                     r2 == [r EXCEPT !.services = services, !.idx = r.idx + 1]
                 IN IF r.idx = Len(allowed_units)
                    THEN Commit(c, Returns(r2, services), f.inv, f.post)
                    ELSE Commit(c, r2, f.inv, f.post)

(*--------------------------- get_service_status -------------------------*)
call_get_service_status(c) ==
    \E arg \in CallArgs :
        Enter(c, "get_service_status", arg, FALSE, <<>>, "show")

get_service_status_show(c) ==
    /\ At(c, "get_service_status", "show")
    /\ LET r == [calls[c] EXCEPT !.after = prev] IN
       \E f \in get_unit_status(r.unit) :
            IF f.raised # <<>>
            THEN Commit(c, Propagate(r, f.raised), f.inv, f.post)
            ELSE Commit(c, Returns(r, service_status(f.status[1])),
                        f.inv, f.post)

(*------------------ steps shared by the two mutations -------------------*)
\* a tool invocation inside the try block: an exception goes to the
\* handler, a non-zero exit to the re-fetch that reports it, and a zero
\* exit on to pc next
Invoke(c, verb, next) ==
    LET r == calls[c]
        args == <<verb, r.unit>>
    IN \E o \in run_systemctl(args) :
         LET inv == <<Invocation(args, o)>> IN
         IF o.kind = "raised"
         THEN Commit(c, [r EXCEPT !.pc = "except", !.exc = <<o.exc>>],
                     inv, o.post)
         ELSE Commit(c, [r EXCEPT !.pc = IF o.rc # 0 THEN "refetch" ELSE next,
                                  !.step = verb, !.rc = o.rc,
                                  !.out = o.out, !.err = o.err],
                     inv, o.post)

\* a return that reuses the status fetched at the start of the call, when
\* there is one, instead of fetching it again
Refetch_current(c) ==
    LET r == calls[c] IN
    IF r.current # <<>>
    THEN Commit(c,
                Returns(r,
                    IF r.rc # 0
                    THEN with_error(service_status(r.current[1]),
                             format_systemctl_error(r.step, r.unit,
                                                    r.rc, r.out, r.err))
                    ELSE service_status(r.current[1])),
                <<>>, sys)
    ELSE \E f \in get_service_status(r.unit) :
            IF f.raised # <<>>
            THEN Commit(c, [r EXCEPT !.pc = "except",
                                     !.exc = <<f.raised[1].msg>>],
                        f.inv, f.post)
            ELSE Commit(c,
                        Returns(r,
                            IF r.rc # 0
                            THEN with_error(f.status[1],
                                     format_systemctl_error(r.step, r.unit,
                                                            r.rc, r.out, r.err))
                            ELSE f.status[1]),
                        f.inv, f.post)

\* status = await self.get_service_status(unit) inside the try block,
\* followed by the return of the status, with the pending error if any
Refetch(c) ==
    LET r == calls[c] IN
    \E f \in get_service_status(r.unit) :
        IF f.raised # <<>>
        THEN Commit(c, [r EXCEPT !.pc = "except",
                                 !.exc = <<f.raised[1].msg>>],
                    f.inv, f.post)
        ELSE Commit(c,
                    Returns(r,
                        IF r.rc # 0
                        THEN with_error(f.status[1],
                                 format_systemctl_error(r.step, r.unit,
                                                        r.rc, r.out, r.err))
                        ELSE f.status[1]),
                    f.inv, f.post)

\* except Exception as e: the status fetched in the handler is outside
\* any try block
Except(c) ==
    LET r == calls[c] IN
    \E f \in get_service_status(r.unit) :
        IF f.raised # <<>>
        THEN Commit(c, Propagate(r, f.raised), f.inv, f.post)
        ELSE Commit(c, Returns(r, with_error(f.status[1], r.exc[1])),
                    f.inv, f.post)

(*--------------------------- set_service_running ------------------------*)
\* the two verbs the wrong way round
running_action_swapped(running) == IF running THEN STOP ELSE START

running_action(running) == IF running THEN START ELSE STOP

call_set_service_running(c) ==
    \E arg \in CallArgs, running \in BOOLEAN :
        Enter(c, "set_service_running", arg, running,
              running_action(running), "action")

set_service_running_action(c) ==
    /\ At(c, "set_service_running", "action")
    /\ Invoke(c, calls[c].action, "refetch")

set_service_running_refetch(c) ==
    /\ At(c, "set_service_running", "refetch")
    /\ Refetch(c)

set_service_running_except(c) ==
    /\ At(c, "set_service_running", "except")
    /\ Except(c)

(*--------------------------- set_service_enabled ------------------------*)
\* enabling that starts the unit instead
enabled_action_starts(enabled) == IF enabled THEN START ELSE DISABLE

enabled_action(enabled) == IF enabled THEN ENABLE ELSE DISABLE

\* enabling a masked unit without unmasking it first
after_current_no_unmask(enabled, current) ==
    IF enabled /\ current.unitFileState = STATIC THEN "static"
    ELSE "action"

\* enabling without the check for static units
after_current_no_static(enabled, current) ==
    IF enabled /\ current.unitFileState = MASKED THEN "unmask"
    ELSE "action"

\* the static and masked checks applied to disabling as well
after_current_any_flag(enabled, current) ==
    IF current.unitFileState = STATIC THEN "static"
    ELSE IF current.unitFileState = MASKED THEN "unmask"
    ELSE "action"

\* where the call goes once the current status is known
after_current(enabled, current) ==
    IF enabled /\ current.unitFileState = STATIC THEN "static"
    ELSE IF enabled /\ current.unitFileState = MASKED THEN "unmask"
    ELSE "action"

call_set_service_enabled(c) ==
    \E arg \in CallArgs, enabled \in BOOLEAN :
        Enter(c, "set_service_enabled", arg, enabled,
              enabled_action(enabled), "current")

set_service_enabled_current(c) ==
    /\ At(c, "set_service_enabled", "current")
    /\ LET r == calls[c] IN
       \E f \in get_unit_status(r.unit) :
            IF f.raised # <<>>
            THEN Commit(c, [r EXCEPT !.pc = "except",
                                     !.exc = <<f.raised[1].msg>>],
                        f.inv, f.post)
            ELSE Commit(c, [r EXCEPT !.current = f.status,
                                     !.pc = after_current(r.flag, f.status[1])],
                        f.inv, f.post)

set_service_enabled_static(c) ==
    /\ At(c, "set_service_enabled", "static")
    /\ LET r == calls[c] IN
       \E f \in get_service_status(r.unit) :
            IF f.raised # <<>>
            THEN Commit(c, [r EXCEPT !.pc = "except",
                                     !.exc = <<f.raised[1].msg>>],
                        f.inv, f.post)
            ELSE Commit(c, Returns(r, with_error(f.status[1], MSG_STATIC)),
                        f.inv, f.post)

set_service_enabled_unmask(c) ==
    /\ At(c, "set_service_enabled", "unmask")
    /\ Invoke(c, UNMASK, "action")

set_service_enabled_action(c) ==
    /\ At(c, "set_service_enabled", "action")
    /\ Invoke(c, calls[c].action, "refetch")

set_service_enabled_refetch(c) ==
    /\ At(c, "set_service_enabled", "refetch")
    /\ Refetch(c)

set_service_enabled_except(c) ==
    /\ At(c, "set_service_enabled", "except")
    /\ Except(c)

(*-------------------------- debug_backend_identity ----------------------*)
call_debug_backend_identity(c) ==
    /\ Dispatch(c)
    /\ \E id \in Identities :
         calls' = [calls EXCEPT ![c] =
                      [Idle EXCEPT !.op = "debug_backend_identity",
                                   !.pc = "version", !.ident = <<id>>]]
    /\ UNCHANGED <<sys, toolExists, conc, prev, norm, probe>>

debug_backend_identity_version(c) ==
    /\ At(c, "debug_backend_identity", "version")
    /\ LET r == calls[c]
           id == r.ident[1]
           args == <<VERSION>>
       IN \E o \in run_systemctl(args) :
            LET inv == <<Invocation(args, o)>> IN
            IF o.kind = "raised"
            THEN Commit(c, Propagate(r, <<[type |-> "OSError", msg |-> o.exc]>>),
                        inv, o.post)
            ELSE Commit(c,
                        Returns(r,
                            [uid |-> id.uid, euid |-> id.euid,
                             user |-> id.user, home |-> id.home,
                             systemctl |-> SYSTEMCTL_BIN,
                             systemctl_ok |-> o.rc = 0,
                             systemctl_version |->
                                 IF o.out # <<>>
                                 THEN <<splitlines(o.out)[1]>> ELSE <<>>,
                             systemctl_error |->
                                 IF o.err # <<>> THEN <<o.err>> ELSE <<>>]),
                        inv, o.post)

(*------------------------------ environment -----------------------------*)
\* the caller takes the result (or the error) and the slot is free again
Return(c) ==
    /\ calls[c].pc = "done"
    /\ calls' = [calls EXCEPT ![c] = Idle]
    /\ UNCHANGED <<sys, toolExists, conc, prev, norm, probe>>

\* the tool is installed or removed
ToolPathChanges ==
    /\ toolExists' = ~toolExists
    /\ UNCHANGED <<sys, conc, calls, prev, norm, probe>>

(***************************************************************************)
(* The specification of the backend.                                       *)
(***************************************************************************)
\* no pure function under examination
ProbeIdle == [pc |-> "idle"]

NormIdle ==
    [pc |-> "idle", input |-> <<>>, first |-> <<>>, firstAuth |-> <<>>,
     second |-> <<>>, secondAuth |-> <<>>]

Init ==
    /\ sys \in [ManagedUnits \cup {CRON_SERVICE} -> UnitStates]
    /\ sys[CRON_SERVICE] = [loaded |-> TRUE, active |-> TRUE, ufs |-> ENABLED_STATE]
    /\ toolExists \in BOOLEAN
    /\ conc = FALSE
    /\ calls = [c \in Slots |-> Idle]
    /\ prev = <<>>
    /\ norm = NormIdle
    /\ probe = ProbeIdle

Next ==
    \/ \E c \in Slots :
        \/ call_get_services(c)
        \/ get_services_loop(c)
        \/ call_get_service_status(c)
        \/ get_service_status_show(c)
        \/ call_set_service_running(c)
        \/ set_service_running_action(c)
        \/ set_service_running_refetch(c)
        \/ set_service_running_except(c)
        \/ call_set_service_enabled(c)
        \/ set_service_enabled_current(c)
        \/ set_service_enabled_static(c)
        \/ set_service_enabled_unmask(c)
        \/ set_service_enabled_action(c)
        \/ set_service_enabled_refetch(c)
        \/ set_service_enabled_except(c)
        \/ call_debug_backend_identity(c)
        \/ debug_backend_identity_version(c)
        \/ Return(c)
    \/ ToolPathChanges

Spec == Init /\ [][Next]_vars

(***************************************************************************)
(* Unit-name normalization on its own: _normalize_unit applied to every    *)
(* short text over an alphabet with a class character, the dot, the        *)
(* hyphen, whitespace, a shell metacharacter and the backslash, and to     *)
(* the names callers use; then applied again to its own result.  Beside    *)
(* each application, the authorization that opens every public operation   *)
(* taking a unit name.                                                     *)
(***************************************************************************)
MaxLen == 4

NormAlphabet == {"a", ".", "-", " ", ";", "\\", "\n"}

Texts(n) == UNION {[1..k -> NormAlphabet] : k \in 0..n}

ARG_SSHD == <<"s","s","h","d">>

NamedInputs ==
    { ARG_SSHD, ARG_SSHD_PADDED, SSHD_SERVICE, BLUETOOTH_SERVICE,
      CRON_SERVICE, ARG_INJECTION, ARG_BACKSLASH }

NormInputs == Texts(MaxLen) \cup NamedInputs

NormInit ==
    /\ sys = [u \in ManagedUnits \cup {CRON_SERVICE} |-> Absent]
    /\ toolExists = FALSE
    /\ conc = FALSE
    /\ calls = [c \in Slots |-> Idle]
    /\ prev = <<>>
    /\ probe = ProbeIdle
    /\ norm \in {[NormIdle EXCEPT !.pc = "input", !.input = x] :
                    x \in NormInputs}

NormalizeInput ==
    /\ norm.pc = "input"
    /\ norm' = [norm EXCEPT !.pc = "once",
                            !.first = <<normalize_unit(norm.input)>>,
                            !.firstAuth = <<authorize(norm.input)>>]
    /\ UNCHANGED <<sys, toolExists, conc, calls, prev, probe>>

NormalizeAgain ==
    /\ norm.pc = "once"
    /\ IsOk(norm.first[1])
    /\ norm' = [norm EXCEPT !.pc = "twice",
                            !.second = <<normalize_unit(norm.first[1].value)>>,
                            !.secondAuth = <<authorize(norm.first[1].value)>>]
    /\ UNCHANGED <<sys, toolExists, conc, calls, prev, probe>>

NormNext == NormalizeInput \/ NormalizeAgain

NormSpec == NormInit /\ [][NormNext]_vars

(***************************************************************************)
(* Status derivation on its own: what _get_unit_status makes of a show     *)
(* invocation's result, for every exit code, stderr and short stdout made  *)
(* of lines with and without '=', padded keys and values, a value holding  *)
(* '=', and keys assigned more than once.  stdout and stderr are stripped  *)
(* as _run_systemctl strips them.                                          *)
(***************************************************************************)
MaxLines == 3

KeyLine(k, v) == k \o <<"=">> \o v

ShowLines ==
    { KeyLine(KEY_LoadState, LOADED),
      KeyLine(KEY_LoadState, NOT_FOUND),
      <<" ">> \o KEY_ActiveState \o <<" ", "=", " ">> \o ACTIVE \o <<" ">>,
      KeyLine(KEY_ActiveState, INACTIVE),
      KeyLine(KEY_SubState, <<"a", "=", "b">>),
      KeyLine(KEY_UnitFileState, STATIC),
      KeyLine(KEY_UnitFileState, ENABLED_RUNTIME),
      KeyLine(KEY_UnitFileState, ENABLED_STATE),
      KeyLine(KEY_Description, DESC_SSHD),
      KEY_LoadState \o <<" ">> \o NOT_FOUND }

ShowErrs == {<<>>, ERR_COULD_NOT_BE_FOUND \o <<"\n">>, NOT_FOUND, ERR_BUS}

ShowCodes == {0, 1}

\* the lines as the process writes them, one per line
Written(lines) == IF lines = <<>> THEN <<>> ELSE join(<<"\n">>, lines) \o <<"\n">>

StatusInit ==
    /\ sys = [u \in ManagedUnits \cup {CRON_SERVICE} |-> Absent]
    /\ toolExists = FALSE
    /\ conc = FALSE
    /\ calls = [c \in Slots |-> Idle]
    /\ prev = <<>>
    /\ norm = NormIdle
    /\ probe \in {[pc |-> "show", lines |-> l, rc |-> rc,
                   out |-> strip(Written(l)), err |-> strip(e)] :
                    l \in UNION {[1..k -> ShowLines] : k \in 0..MaxLines},
                    rc \in ShowCodes, e \in ShowErrs}

DeriveStatus ==
    /\ probe.pc = "show"
    /\ probe' = [pc |-> "status", lines |-> probe.lines, rc |-> probe.rc,
                 out |-> probe.out, err |-> probe.err,
                 status |-> unit_status(SSHD_SERVICE, probe.rc, probe.out,
                                        probe.err)]
    /\ UNCHANGED <<sys, toolExists, conc, calls, prev, norm>>

StatusNext == DeriveStatus

StatusSpec == StatusInit /\ [][StatusNext]_vars

(***************************************************************************)
(* Concurrent dispatch: the host has two mutation calls in flight at       *)
(* once.  Each call still takes one step per tool invocation, and the      *)
(* steps of the two calls interleave freely, as coroutines suspended at    *)
(* their awaits do.  The tool is installed and sshd.service is loaded.     *)
(***************************************************************************)
\* the two calls name the same unit
ConcArg == ARG_SSHD_PADDED

conc_set_service_running(c) ==
    \E running \in BOOLEAN :
        Enter(c, "set_service_running", ConcArg, running,
              running_action(running), "action")

conc_set_service_enabled(c) ==
    \E enabled \in BOOLEAN :
        Enter(c, "set_service_enabled", ConcArg, enabled,
              enabled_action(enabled), "current")

ConcInit ==
    /\ sys = [u \in ManagedUnits \cup {CRON_SERVICE} |->
                 IF u = SSHD_SERVICE
                 THEN [loaded |-> TRUE, active |-> FALSE, ufs |-> DISABLED]
                 ELSE IF u = CRON_SERVICE
                 THEN [loaded |-> TRUE, active |-> TRUE, ufs |-> ENABLED_STATE]
                 ELSE Absent]
    /\ toolExists = TRUE
    /\ conc = TRUE
    /\ calls = [c \in Slots |-> Idle]
    /\ prev = <<>>
    /\ norm = NormIdle
    /\ probe = ProbeIdle

ConcNext ==
    \E c \in Slots :
        \/ conc_set_service_running(c)
        \/ set_service_running_action(c)
        \/ set_service_running_refetch(c)
        \/ set_service_running_except(c)
        \/ conc_set_service_enabled(c)
        \/ set_service_enabled_current(c)
        \/ set_service_enabled_action(c)
        \/ set_service_enabled_refetch(c)
        \/ set_service_enabled_except(c)

ConcSpec == ConcInit /\ [][ConcNext]_vars

(***************************************************************************)
(* Properties.                                                             *)
(***************************************************************************)
AllowlistUnits == {DEFAULT_UNITS[i].unit : i \in 1..Len(DEFAULT_UNITS)}

UnitVerbs == {SHOW, START, STOP, ENABLE, DISABLE, UNMASK}

Done(c) == calls[c].pc = "done"

Raised(c) == calls[c].raised # <<>>

Returned(c) == Done(c) /\ calls[c].result # <<>>

HasError(c) == Returned(c) /\ "error" \in DOMAIN calls[c].result[1]

EndsWith(s, suffix) ==
    /\ Len(s) >= Len(suffix)
    /\ SubSeq(s, Len(s) - Len(suffix) + 1, Len(s)) = suffix

StartsWith(s, prefix) ==
    /\ Len(s) >= Len(prefix)
    /\ SubSeq(s, 1, Len(prefix)) = prefix

\* the caller's argument normalizes to an allowlisted unit
ArgAllowlisted(x) ==
    /\ IsOk(normalize_unit(x))
    /\ normalize_unit(x).value \in AllowlistUnits

\* C1: every tool invocation that carries a unit names an allowlisted
\* unit, with one of the six unit verbs, and the only invocation without
\* a unit is --version; a call whose argument does not normalize to an
\* allowlisted unit has failed with ValueError having invoked nothing,
\* whether or not the unit exists on the system.
C1_OnlyAllowlistedUnits ==
    \A c \in Slots :
        /\ \A i \in 1..Len(calls[c].inv) :
              LET e == calls[c].inv[i] IN
              IF e.unit = <<>> THEN e.verb = VERSION
              ELSE e.unit[1] \in AllowlistUnits /\ e.verb \in UnitVerbs
        /\ (calls[c].arg # <<>> /\ ~ArgAllowlisted(calls[c].arg[1])) =>
              /\ Done(c)
              /\ Raised(c)
              /\ calls[c].raised[1].type = "ValueError"
              /\ calls[c].inv = <<>>

\* a unit that exists on the system but is not allowlisted is refused
\* before anything is invoked
C1_Witness ==
    \E c \in Slots :
        /\ calls[c].op = "set_service_running"
        /\ calls[c].arg = <<CRON_SERVICE>>
        /\ sys[CRON_SERVICE].loaded
        /\ Raised(c)
        /\ calls[c].raised[1].msg = MSG_NOT_ALLOWLISTED
        /\ calls[c].inv = <<>>

\* the call is a mutation that has passed normalization and the allowlist
Authorized(c) == calls[c].op \in Mutations /\ calls[c].unit # <<>>

\* C2: once normalization and the allowlist check have passed, a mutation
\* never raises to its caller, and a call that caught an exception
\* returns a status record whose error is the exception's message.
C2_MutationsNeverRaise ==
    \A c \in Slots :
        Authorized(c) =>
            /\ ~Raised(c)
            /\ (Done(c) /\ calls[c].exc # <<>>) =>
                  /\ HasError(c)
                  /\ calls[c].result[1].error = calls[c].exc[1]

\* the invocation number i of call c produced an exit code, and it is
\* not zero (the code synthesized for a missing tool included)
ExitedNonZero(c, i) ==
    /\ i <= Len(calls[c].inv)
    /\ calls[c].inv[i].kind # "raised"
    /\ calls[c].inv[i].rc # 0

RaisedAt(c, i) == i <= Len(calls[c].inv) /\ calls[c].inv[i].kind = "raised"

RcSuffix(rc) == FMT_RC_OPEN \o int_str(rc) \o FMT_RC_CLOSE

\* the error text reports the exit code rc and is made of the stderr and
\* stdout kept from the failed invocation
ReportsExit(c, rc) ==
    LET e == calls[c].result[1].error IN
    /\ e # <<>>
    /\ EndsWith(e, RcSuffix(rc))
    /\ calls[c].err # <<>> => StartsWith(e, calls[c].err)
    /\ (calls[c].err = <<>> /\ calls[c].out # <<>>) => StartsWith(e, calls[c].out)
    /\ (calls[c].out # <<>> /\ calls[c].out # calls[c].err) =>
          Contains(calls[c].out, e)

\* C3 as stated: whenever the start/stop invocation exits non-zero, the
\* call does not raise and returns a record whose error is non-empty,
\* ends with "(rc=<rc>)" and is built from that invocation's output.
C3_NonZeroExitReported ==
    \A c \in Slots :
        (calls[c].op = "set_service_running" /\ Done(c) /\ ExitedNonZero(c, 1)) =>
            /\ ~Raised(c)
            /\ HasError(c)
            /\ ReportsExit(c, calls[c].inv[1].rc)

\* C3 (amended): when the start/stop invocation exits non-zero and the
\* status re-fetch that follows does not raise, the call does not raise
\* and returns a record whose error is non-empty, ends with "(rc=<rc>)"
\* and is built from that invocation's output; when that re-fetch raises
\* and the handler's own fetch does not, the call returns a record whose
\* error is the exception's message instead.
C3_NonZeroExitReportedUnlessRefetchRaises ==
    \A c \in Slots :
        (calls[c].op = "set_service_running" /\ Done(c) /\ ExitedNonZero(c, 1)) =>
            /\ ~RaisedAt(c, 2) =>
                  /\ ~Raised(c)
                  /\ HasError(c)
                  /\ ReportsExit(c, calls[c].inv[1].rc)
            /\ (RaisedAt(c, 2) /\ ~RaisedAt(c, 3)) =>
                  /\ ~Raised(c)
                  /\ HasError(c)
                  /\ calls[c].result[1].error = calls[c].exc[1]

\* a stop that exits 4 with both streams non-empty is reported
C3_Witness ==
    \E c \in Slots :
        /\ calls[c].op = "set_service_running"
        /\ ~calls[c].flag
        /\ Done(c)
        /\ ExitedNonZero(c, 1)
        /\ calls[c].inv[1].rc = 4
        /\ HasError(c)
        /\ calls[c].result[1].error =
              ERR_ACCESS_DENIED \o FMT_JOIN \o OUT_HINT \o RcSuffix(4)

\* call c is set_service_enabled(unit, true) and the status fetched at
\* its start has the unit-file state ufs
EnablingFrom(c, ufs) ==
    /\ calls[c].op = "set_service_enabled"
    /\ calls[c].flag
    /\ calls[c].current # <<>>
    /\ calls[c].current[1].unitFileState = ufs

Invoked(c, verb) == \E i \in 1..Len(calls[c].inv) : calls[c].inv[i].verb = verb

\* in call c's log: unmask comes before any enable, a failed unmask is
\* never followed by enable, and a successful unmask is followed by
\* enable as the next invocation
UnmaskThenEnable(c) ==
    LET inv == calls[c].inv IN
    /\ \A j \in 1..Len(inv) :
          inv[j].verb = ENABLE => \E i \in 1..(j - 1) : inv[i].verb = UNMASK
    /\ \A i \in 1..Len(inv) :
          (inv[i].verb = UNMASK /\ ExitedNonZero(c, i)) => ~Invoked(c, ENABLE)
    /\ \A i \in 1..Len(inv) :
          (inv[i].verb = UNMASK /\ inv[i].kind = "ran" /\ inv[i].rc = 0) =>
              IF i = Len(inv) THEN calls[c].pc = "action"
              ELSE inv[i + 1].verb = ENABLE

UnmaskError(c) ==
    format_systemctl_error(UNMASK, calls[c].unit, calls[c].rc,
                           calls[c].out, calls[c].err)

\* C4 as stated: enabling a unit fetched as masked invokes unmask before
\* enable; after an unmask that exits non-zero, enable is never invoked
\* and the returned error is the formatted error of the unmask step;
\* after an unmask that exits zero, enable is invoked next.
C4_UnmaskBeforeEnable ==
    \A c \in Slots :
        EnablingFrom(c, MASKED) =>
            /\ UnmaskThenEnable(c)
            /\ (ExitedNonZero(c, 2) /\ Returned(c)) =>
                  /\ HasError(c)
                  /\ calls[c].result[1].error = UnmaskError(c)

\* C4 (amended): as stated, except that the returned error is the
\* formatted error of the unmask step when the status re-fetch after the
\* failed unmask does not raise; when it raises and the handler's own
\* fetch returns, the returned error is the exception's message.
C4_UnmaskBeforeEnableUnlessRefetchRaises ==
    \A c \in Slots :
        EnablingFrom(c, MASKED) =>
            /\ UnmaskThenEnable(c)
            /\ (ExitedNonZero(c, 2) /\ Done(c) /\ ~RaisedAt(c, 3)) =>
                  /\ HasError(c)
                  /\ calls[c].result[1].error = UnmaskError(c)
            /\ (ExitedNonZero(c, 2) /\ Returned(c) /\ RaisedAt(c, 3)) =>
                  /\ HasError(c)
                  /\ calls[c].result[1].error = calls[c].exc[1]

\* a masked unit whose unmask is denied: enable was never invoked
C4_Witness ==
    \E c \in Slots :
        /\ EnablingFrom(c, MASKED)
        /\ Returned(c)
        /\ Len(calls[c].inv) = 3
        /\ calls[c].inv[2].verb = UNMASK
        /\ calls[c].inv[2].rc = 4
        /\ calls[c].inv[3].verb = SHOW
        /\ calls[c].result[1].error =
              ERR_ACCESS_DENIED \o FMT_JOIN \o OUT_HINT \o RcSuffix(4)

C6_RunningRoundTrip ==
    \A c \in Slots :
        /\ ( /\ calls[c].op = "set_service_running"
             /\ Returned(c)
             /\ Clean(calls[c]) ) =>
                calls[c].result[1].active = calls[c].flag
        /\ ( /\ calls[c].op = "get_service_status"
             /\ Returned(c)
             /\ Clean(calls[c])
             /\ calls[c].after # <<>>
             /\ calls[c].after[1].op = "set_service_running"
             /\ calls[c].after[1].unit = calls[c].unit ) =>
                calls[c].result[1].active = calls[c].after[1].flag

\* a read right after a successful start reports the unit active
C6_Witness ==
    \E c \in Slots :
        /\ calls[c].op = "get_service_status"
        /\ Returned(c)
        /\ Clean(calls[c])
        /\ calls[c].after # <<>>
        /\ calls[c].after[1].op = "set_service_running"
        /\ calls[c].after[1].unit = calls[c].unit
        /\ calls[c].after[1].flag
        /\ calls[c].result[1].active

\* C7: whenever get_services returns, its list has exactly one record per
\* allowlist entry, in allowlist order, each with that entry's unit and
\* label, made from one show per entry in that order; and it returns
\* whenever none of its lookups raised, whatever their results were.
C7_OneRecordPerEntry ==
    \A c \in Slots :
        (calls[c].op = "get_services" /\ Done(c)) =>
            /\ (\A i \in 1..Len(calls[c].inv) : calls[c].inv[i].kind # "raised")
                  => Returned(c)
            /\ Returned(c) =>
                  LET list == calls[c].result[1] IN
                  /\ Len(list) = Len(DEFAULT_UNITS)
                  /\ Len(calls[c].inv) = Len(DEFAULT_UNITS)
                  /\ \A i \in 1..Len(DEFAULT_UNITS) :
                        /\ list[i].unit = DEFAULT_UNITS[i].unit
                        /\ list[i].label = DEFAULT_UNITS[i].label
                        /\ calls[c].inv[i].verb = SHOW
                        /\ calls[c].inv[i].unit = <<DEFAULT_UNITS[i].unit>>

\* a list whose first unit hit the not-found shortcut and whose second
\* lookup found the tool missing
C7_Witness ==
    \E c \in Slots :
        /\ calls[c].op = "get_services"
        /\ Returned(c)
        /\ calls[c].result[1][1] =
              [label |-> SSH_SERVER] @@ NotFoundStatus(SSHD_SERVICE)
        /\ calls[c].inv[2].kind = "missing"
        /\ calls[c].result[1][2].loadState = UNKNOWN

\* C8: normalization accepts an input exactly when its trimmed form is
\* non-empty and made only of letters, digits and @ . _ : - , and every
\* other input fails with ValueError.
C8_AcceptsExactlyClassNames ==
    norm.pc \in {"once", "twice"} =>
        LET t == strip(norm.input)
            r == norm.first[1]
        IN
        /\ IsOk(r) <=> (t # <<>> /\ AllUnitChars(t))
        /\ ~IsOk(r) => r.raised[1].type = "ValueError"

\* C9: an accepted input normalizes to its trimmed form, with ".service"
\* appended when the trimmed form has no '.'; normalizing the result
\* again succeeds and changes nothing, and the result is authorized
\* exactly as the input was.
C9_NormalizeIdempotent ==
    /\ (norm.pc \in {"once", "twice"} /\ IsOk(norm.first[1])) =>
          LET t == strip(norm.input) IN
          norm.first[1].value =
              IF \E i \in 1..Len(t) : t[i] = "." THEN t ELSE t \o SERVICE_SUFFIX
    /\ norm.pc = "twice" =>
          /\ IsOk(norm.second[1])
          /\ norm.second[1].value = norm.first[1].value
          /\ norm.secondAuth = norm.firstAuth
    /\ (norm.pc = "twice" /\ norm.input \in {ARG_SSHD, ARG_SSHD_PADDED, SSHD_SERVICE}) =>
          /\ norm.second[1].value = SSHD_SERVICE
          /\ IsOk(norm.firstAuth[1])
          /\ norm.firstAuth[1].value = SSHD_SERVICE

\* " sshd " normalized twice is sshd.service both times
C9_Witness ==
    /\ norm.pc = "twice"
    /\ norm.input = ARG_SSHD_PADDED
    /\ norm.first[1].value = SSHD_SERVICE
    /\ norm.second[1].value = SSHD_SERVICE
    /\ IsOk(norm.secondAuth[1])

ValueErrorMessages == {MSG_REQUIRED, MSG_INVALID, MSG_NOT_ALLOWLISTED}

\* C10 as stated: a call that raises has spawned or attempted no
\* subprocess, and raises only for an empty name, a name failing the
\* pattern or a name not in the allowlist.
C10_RaisesOnlyBeforeAnySpawn ==
    \A c \in Slots :
        Raised(c) =>
            /\ calls[c].inv = <<>>
            /\ calls[c].raised[1].type = "ValueError"
            /\ calls[c].raised[1].msg \in ValueErrorMessages

\* C10 (amended): a call that raises ValueError has attempted no tool
\* invocation, and does so only for an empty name, a name failing the
\* pattern or a name not in the allowlist; the only other error a call
\* raises is the exception of a tool invocation that failed to spawn,
\* which is the last thing that call attempted.
C10_ValueErrorOnlyBeforeAnySpawn ==
    \A c \in Slots :
        Raised(c) =>
            LET e == calls[c].raised[1] IN
            IF e.type = "ValueError"
            THEN /\ calls[c].inv = <<>>
                 /\ calls[c].arg # <<>>
                 /\ e.msg \in ValueErrorMessages
                 /\ e.msg = MSG_REQUIRED <=> strip(calls[c].arg[1]) = <<>>
                 /\ e.msg = MSG_NOT_ALLOWLISTED =>
                       normalize_unit(calls[c].arg[1]).value \notin AllowlistUnits
            ELSE /\ e.type = "OSError"
                 /\ calls[c].inv # <<>>
                 /\ calls[c].inv[Len(calls[c].inv)].kind = "raised"

\* the injection attempt is refused by the pattern, nothing invoked
C10_Witness ==
    \E c \in Slots :
        /\ calls[c].op = "set_service_enabled"
        /\ calls[c].arg = <<ARG_INJECTION>>
        /\ Raised(c)
        /\ calls[c].raised[1].msg = MSG_INVALID
        /\ calls[c].inv = <<>>

\* every invocation of call c found the path missing
AllMissing(c) ==
    /\ calls[c].inv # <<>>
    /\ \A i \in 1..Len(calls[c].inv) : calls[c].inv[i].kind = "missing"

\* C11: the path's existence is checked at each tool invocation: an
\* invocation made while the path does not exist spawns nothing and
\* yields exit code 127, empty stdout and the stderr "systemctl not found
\* at <path>", and one made while it exists is never short-circuited; a
\* mutation on an allowlisted unit whose invocations all found the tool
\* missing returns, without raising, a record whose error ends with
\* "(rc=127)".
C11_PathCheckedAtEveryInvocation ==
    \A c \in Slots :
        /\ \A i \in 1..Len(calls[c].inv) :
              LET e == calls[c].inv[i] IN
              IF e.path_exists THEN e.kind \in {"ran", "raised"}
              ELSE /\ e.kind = "missing"
                   /\ e.rc = 127
                   /\ e.out = <<>>
                   /\ e.err = MSG_TOOL_MISSING \o SYSTEMCTL_BIN
        /\ (calls[c].op \in Mutations /\ Done(c) /\ AllMissing(c)) =>
              /\ ~Raised(c)
              /\ HasError(c)
              /\ EndsWith(calls[c].result[1].error, RcSuffix(127))

\* a start that ran, then the tool removed before the re-fetch: the
\* re-fetch is short-circuited within the same call
C11_Witness ==
    \E c \in Slots :
        /\ calls[c].op = "set_service_running"
        /\ Returned(c)
        /\ Len(calls[c].inv) = 2
        /\ calls[c].inv[1].kind = "ran"
        /\ calls[c].inv[2].kind = "missing"
        /\ calls[c].inv[2].rc = 127

\* both mutations with the tool missing throughout
C11_WitnessMissing ==
    \E c \in Slots :
        /\ calls[c].op = "set_service_enabled"
        /\ Returned(c)
        /\ AllMissing(c)
        /\ calls[c].result[1].error =
              MSG_TOOL_MISSING \o SYSTEMCTL_BIN \o RcSuffix(127)

\* the position of the first '=' of a line that has one
FirstEq(line) ==
    CHOOSE p \in 1..Len(line) :
        line[p] = "=" /\ \A q \in 1..(p - 1) : line[q] # "="

HasEq(line) == \E p \in 1..Len(line) : line[p] = "="

\* the lines that assign key k: split at the first '=', key trimmed
Assigning(lines, k) ==
    {i \in 1..Len(lines) :
        /\ HasEq(lines[i])
        /\ strip(SubSeq(lines[i], 1, FirstEq(lines[i]) - 1)) = k}

\* the trimmed value of the last line that assigns k; <<>> when none does
LastValue(lines, k) ==
    LET S == Assigning(lines, k) IN
    IF S = {} THEN <<>>
    ELSE LET line == lines[CHOOSE i \in S : \A j \in S : j <= i]
         IN <<strip(SubSeq(line, FirstEq(line) + 1, Len(line)))>>

OrUnknown(v) == IF v = <<>> THEN UNKNOWN ELSE v[1]

\* C12: the status derived from a show result (rc, stdout, stderr) is the
\* fixed not-found record when rc is non-zero, stdout is empty and stderr
\* contains "not be found" or "not-found"; in every other case its fields
\* are read from stdout's KEY=VALUE lines (split at the first '=', both
\* sides trimmed, the last duplicate winning, lines without '=' ignored),
\* the four states defaulting to "unknown" and the description absent when
\* missing, with exists, active, enabled and canToggleEnable derived from
\* them.
C12_StatusDerivation ==
    probe.pc = "status" =>
        LET s == probe.status
            load == OrUnknown(LastValue(probe.lines, KEY_LoadState))
            act == OrUnknown(LastValue(probe.lines, KEY_ActiveState))
            sub == OrUnknown(LastValue(probe.lines, KEY_SubState))
            ufs == OrUnknown(LastValue(probe.lines, KEY_UnitFileState))
        IN
        IF /\ probe.rc # 0
           /\ probe.out = <<>>
           /\ \/ Contains(NOT_BE_FOUND, probe.err)
              \/ Contains(NOT_FOUND, probe.err)
        THEN s = [unit |-> SSHD_SERVICE, exists |-> FALSE, active |-> FALSE,
                  activeState |-> INACTIVE, subState |-> DEAD,
                  unitFileState |-> NOT_FOUND, enabled |-> FALSE,
                  canToggleEnable |-> FALSE, description |-> <<>>,
                  loadState |-> NOT_FOUND]
        ELSE /\ s.unit = SSHD_SERVICE
             /\ s.loadState = load
             /\ s.activeState = act
             /\ s.subState = sub
             /\ s.unitFileState = ufs
             /\ s.description = LastValue(probe.lines, KEY_Description)
             /\ s.exists = (load # NOT_FOUND)
             /\ s.active = (act = ACTIVE)
             /\ s.enabled = (ufs \in {ENABLED_STATE, ENABLED_RUNTIME})
             /\ s.canToggleEnable = (ufs # STATIC)

\* a key assigned twice with padding, a value holding '=', and a line
\* without '=': the last assignment wins and the rest is read as written
C12_Witness ==
    /\ probe.pc = "status"
    /\ probe.rc = 1
    /\ probe.err = NOT_FOUND
    /\ probe.lines =
          << KeyLine(KEY_ActiveState, INACTIVE),
             <<" ">> \o KEY_ActiveState \o <<" ", "=", " ">> \o ACTIVE \o <<" ">>,
             KeyLine(KEY_SubState, <<"a", "=", "b">>) >>
    /\ probe.status.active
    /\ probe.status.subState = <<"a", "=", "b">>
    /\ probe.status.loadState = UNKNOWN
    /\ probe.status.exists

\* the shortcut: a failed show with nothing on stdout and a stderr that
\* says the unit could not be found
C12_WitnessNotFound ==
    /\ probe.pc = "status"
    /\ probe.rc = 1
    /\ probe.out = <<>>
    /\ probe.err = ERR_COULD_NOT_BE_FOUND
    /\ ~probe.status.exists
    /\ ~probe.status.canToggleEnable

StatusOps ==
    {"get_services", "get_service_status", "set_service_running",
     "set_service_enabled"}

\* the status records call c has returned, each with the show invocation
\* of that call it was derived from
ReturnedStatuses(c) ==
    IF ~(Returned(c) /\ calls[c].op \in StatusOps) THEN {}
    ELSE IF calls[c].op = "get_services"
    THEN {<<calls[c].result[1][i], calls[c].inv[i]>> :
             i \in 1..Len(calls[c].result[1])}
    ELSE {<<calls[c].result[1], calls[c].inv[Len(calls[c].inv)]>>}

\* the show result takes the not-found shortcut
Shortcut(e) ==
    /\ e.rc # 0
    /\ e.out = <<>>
    /\ (Contains(NOT_BE_FOUND, e.err) \/ Contains(NOT_FOUND, e.err))

\* C13 as stated: in every status record a public operation returns,
\* canToggleEnable is true exactly when unitFileState is not "static".
C13_ToggleUnlessStatic ==
    \A c \in Slots : \A p \in ReturnedStatuses(c) :
        p[1].canToggleEnable = (p[1].unitFileState # STATIC)

\* C13 (amended): in every status record a public operation returns,
\* canToggleEnable is true exactly when unitFileState is not "static",
\* whatever else the state is ("masked", "unknown", empty), except in the
\* record synthesized by the not-found shortcut, whose unitFileState is
\* "not-found" and whose canToggleEnable is false.
C13_ToggleUnlessStaticOrShortcut ==
    \A c \in Slots : \A p \in ReturnedStatuses(c) :
        /\ p[2].verb = SHOW
        /\ IF Shortcut(p[2])
           THEN /\ p[1].unitFileState = NOT_FOUND
                /\ ~p[1].exists
                /\ ~p[1].canToggleEnable
           ELSE p[1].canToggleEnable = (p[1].unitFileState # STATIC)

\* a masked unit and a unit read with the tool missing are both reported
\* as toggle-eligible by the listing
C13_Witness ==
    \E c \in Slots :
        /\ calls[c].op = "get_services"
        /\ Returned(c)
        /\ calls[c].result[1][1].unitFileState = MASKED
        /\ calls[c].result[1][1].canToggleEnable
        /\ calls[c].result[1][2].unitFileState = UNKNOWN
        /\ calls[c].result[1][2].canToggleEnable

VerbsOf(c) == {calls[c].inv[i].verb : i \in 1..Len(calls[c].inv)}

\* C14: on every path, set_service_enabled never invokes start or stop,
\* set_service_running never invokes enable, disable or unmask, and
\* get_services and get_service_status invoke nothing but show.
C14_IndependentAxes ==
    \A c \in Slots :
        /\ calls[c].op = "set_service_enabled" =>
              VerbsOf(c) \cap {START, STOP} = {}
        /\ calls[c].op = "set_service_running" =>
              VerbsOf(c) \cap {ENABLE, DISABLE, UNMASK} = {}
        /\ calls[c].op \in {"get_services", "get_service_status"} =>
              VerbsOf(c) \subseteq {SHOW}

\* enabling a masked unit that ends in the exception handler: show,
\* unmask, an enable that fails to spawn, and the handler's show
C14_Witness ==
    \E c \in Slots :
        /\ calls[c].op = "set_service_enabled"
        /\ Returned(c)
        /\ calls[c].exc # <<>>
        /\ VerbsOf(c) = {SHOW, UNMASK, ENABLE}
        /\ Len(calls[c].inv) = 4

\* a returned record without its error field
WithoutError(s) == [f \in DOMAIN s \ {"error"} |-> s[f]]

\* C15: when set_service_enabled(unit, true) fetches a status whose
\* unitFileState is "static", that fetch is the call's only tool
\* invocation, and the record returned is that fetched status with only
\* the error field added.
C15_StaticReturnsFetchedStatus ==
    \A c \in Slots :
        EnablingFrom(c, STATIC) =>
            /\ Len(calls[c].inv) = 1
            /\ Done(c) =>
                  /\ Returned(c)
                  /\ WithoutError(calls[c].result[1]) = calls[c].current[1]
                  /\ calls[c].result[1].unitFileState = STATIC

\* the part of C15 about the record alone: whatever the call invokes, the
\* record it returns for a unit fetched as static is that fetched status
\* with the error added
C15_StaticRecordIsFetchedStatus ==
    \A c \in Slots :
        (EnablingFrom(c, STATIC) /\ Returned(c)) =>
            /\ WithoutError(calls[c].result[1]) = calls[c].current[1]
            /\ calls[c].result[1].unitFileState = STATIC

\* the status fields of a returned record
StatusFields(s) == [f \in DOMAIN s \ {"error", "label"} |-> s[f]]

MutatingVerbs == {START, STOP, ENABLE, DISABLE, UNMASK}

\* C16: every status record a call returns is derived from a show of that
\* unit invoked during the same call, and reports what the service
\* manager holds when the call completes if that show succeeded; in the
\* two mutations that show is the call's last invocation, after every
\* start, stop, enable, disable or unmask of the call, whether those
\* exited zero or not.
C16_StatusAlwaysRefetched ==
    \A c \in Slots :
        /\ \A p \in ReturnedStatuses(c) :
              /\ p[2].verb = SHOW
              /\ p[2].unit = <<p[1].unit>>
              /\ p[2].kind # "raised"
              /\ StatusFields(p[1]) =
                    unit_status(p[1].unit, p[2].rc, p[2].out, p[2].err)
              /\ (p[2].kind = "ran" /\ p[2].rc = 0) =>
                    p[2].out = strip(ShowText(sys, p[1].unit))
        /\ (calls[c].op \in Mutations /\ Returned(c)) =>
              LET inv == calls[c].inv IN
              /\ inv[Len(inv)].verb = SHOW
              /\ \A i \in 1..Len(inv) :
                    inv[i].verb \in MutatingVerbs => i < Len(inv)

\* an enable that succeeds on a disabled unit: the status returned comes
\* from the show invoked after it and already reads "enabled"
C16_Witness ==
    \E c \in Slots :
        /\ calls[c].op = "set_service_enabled"
        /\ calls[c].flag
        /\ Returned(c)
        /\ Len(calls[c].inv) = 3
        /\ calls[c].inv[2].verb = ENABLE
        /\ calls[c].inv[2].rc = 0
        /\ calls[c].current[1].unitFileState = DISABLED
        /\ calls[c].result[1].unitFileState = ENABLED_STATE

\* call c is a mutation that has returned, every invocation of it having
\* exited zero, a record without an error whose flag is not the one asked
Contradicted(c) ==
    /\ calls[c].op \in Mutations
    /\ Returned(c)
    /\ Clean(calls[c])
    /\ ~HasError(c)
    /\ IF calls[c].op = "set_service_running"
       THEN calls[c].result[1].active # calls[c].flag
       ELSE calls[c].result[1].enabled # calls[c].flag

\* C17: nothing keeps two concurrent mutation calls on one unit apart: a
\* call whose start, stop, enable or disable exited zero can return,
\* without an error, a status that contradicts what it asked for, and it
\* does so only when an invocation of the other call ran between its own
\* mutating invocation and its status re-fetch.
C17_NoMutualExclusion ==
    \A c \in Slots : Contradicted(c) => calls[c].interleaved

\* set_service_running(unit, true): start exited zero, the other call's
\* stop ran before the re-fetch, and the record returned says active=false
\* with no error
C17_Witness ==
    \E c, d \in Slots :
        /\ c # d
        /\ calls[c].op = "set_service_running"
        /\ calls[c].flag
        /\ Contradicted(c)
        /\ calls[c].inv[1].verb = START
        /\ calls[c].inv[1].rc = 0
        /\ ~calls[c].result[1].active
        /\ calls[d].op = "set_service_running"
        /\ ~calls[d].flag
        /\ Invoked(d, STOP)

\* the same for set_service_enabled(unit, true) against a disable
C17_WitnessEnabled ==
    \E c, d \in Slots :
        /\ c # d
        /\ calls[c].op = "set_service_enabled"
        /\ calls[c].flag
        /\ Contradicted(c)
        /\ ~calls[c].result[1].enabled
        /\ Invoked(d, DISABLE)

\* the message as the formatter is described: the details D, then the
\* exit code
MessageFor(action, rc, out, err) ==
    LET D == IF err # <<>> /\ out # <<>> /\ err # out
             THEN err \o <<" ", "|", " ">> \o out
             ELSE IF err # <<>> THEN err
             ELSE IF out # <<>> THEN out
             ELSE <<"s","y","s","t","e","m","c","t","l"," ">> \o action
                  \o <<" ","f","a","i","l","e","d">>
    IN D \o <<" ", "(", "r", "c", "=">> \o int_str(rc) \o <<")">>

\* the invocations of call c that are a start, stop, enable, disable or
\* unmask that exited non-zero
FailedSteps(c) ==
    {i \in 1..Len(calls[c].inv) :
        calls[c].inv[i].verb \in MutatingVerbs /\ ExitedNonZero(c, i)}

\* C18 as stated: every mutation call in which a start, stop, unmask,
\* enable or disable exited non-zero returns an error that is D followed
\* by " (rc=<rc>)" for that step's action name, exit code, stdout and
\* stderr, D being stderr and stdout joined by " | " when both are
\* non-empty and different, the non-empty one when only one is or both
\* are equal, and "systemctl <action> failed" when both are empty.
C18_FailedStepFormatted ==
    \A c \in Slots :
        (calls[c].op \in Mutations /\ Done(c)) =>
            \A i \in FailedSteps(c) :
                LET e == calls[c].inv[i] IN
                /\ HasError(c)
                /\ calls[c].result[1].error =
                      MessageFor(e.verb, e.rc, e.out, e.err)

\* C18 (amended): as stated for every such call whose status re-fetch
\* after the failed step does not raise; when that re-fetch raises and
\* the handler's own fetch returns, the error returned is the exception's
\* message.  The failed step is the last start, stop, unmask, enable or
\* disable the call invokes.
C18_FailedStepFormattedUnlessRefetchRaises ==
    \A c \in Slots :
        calls[c].op \in Mutations =>
            \A i \in FailedSteps(c) :
                LET e == calls[c].inv[i] IN
                /\ \A j \in (i + 1)..Len(calls[c].inv) :
                      calls[c].inv[j].verb = SHOW
                /\ (Done(c) /\ ~RaisedAt(c, i + 1)) =>
                      /\ HasError(c)
                      /\ calls[c].result[1].error =
                            MessageFor(e.verb, e.rc, e.out, e.err)
                /\ (Returned(c) /\ RaisedAt(c, i + 1)) =>
                      /\ HasError(c)
                      /\ calls[c].result[1].error = calls[c].exc[1]

\* "systemctl stop failed (rc=1)" for a stop that printed nothing, and
\* stderr alone when stdout repeats it
C18_Witness ==
    \E c \in Slots :
        /\ calls[c].op = "set_service_running"
        /\ ~calls[c].flag
        /\ Returned(c)
        /\ FailedSteps(c) = {1}
        /\ HasError(c)
        /\ calls[c].result[1].error =
              <<"s","y","s","t","e","m","c","t","l"," ","s","t","o","p"," ",
                "f","a","i","l","e","d"," ","(","r","c","=","1",")">>

\* stdout equal to stderr is reported once; stdout alone is reported
C18_WitnessEqual ==
    \E c \in Slots :
        /\ calls[c].op = "set_service_enabled"
        /\ Returned(c)
        /\ Len(calls[c].inv) = 3
        /\ calls[c].inv[2].verb = DISABLE
        /\ calls[c].inv[2].out = calls[c].inv[2].err
        /\ HasError(c)
        /\ calls[c].result[1].error =
              <<"A","c","c","e","s","s"," ","d","e","n","i","e","d"," ",
                "(","r","c","=","3",")">>

ReadOps == {"get_services", "get_service_status"}

TimesInvoked(c, verb) ==
    Cardinality({i \in 1..Len(calls[c].inv) : calls[c].inv[i].verb = verb})

\* call c is set_service_enabled(unit, false) and its initial status
\* fetch has completed
Disabling(c) ==
    /\ calls[c].op = "set_service_enabled"
    /\ ~calls[c].flag
    /\ calls[c].current # <<>>

\* C20: set_service_enabled(unit, false), once its initial status fetch
\* has completed, goes on to invoke disable whatever unit-file state was
\* fetched, and has invoked it exactly once when it ends; it never
\* invokes unmask or enable and never returns the static-unit error.
\* unmask is invoked only by set_service_enabled(unit, true), only when
\* the state fetched at the start is "masked", and at most once in a call.
C20_DisableUnconditional ==
    \A c \in Slots :
        /\ Disabling(c) =>
              /\ calls[c].pc \in {"action", "refetch", "except", "done"}
              /\ TimesInvoked(c, DISABLE) =
                    IF calls[c].pc = "action" THEN 0 ELSE 1
              /\ calls[c].pc # "action" => calls[c].inv[2].verb = DISABLE
              /\ ~Invoked(c, UNMASK)
              /\ ~Invoked(c, ENABLE)
              /\ HasError(c) => calls[c].result[1].error # MSG_STATIC
        /\ Invoked(c, UNMASK) =>
              /\ EnablingFrom(c, MASKED)
              /\ TimesInvoked(c, UNMASK) = 1

\* disabling a unit fetched as static: disable is invoked, exits zero,
\* and the record returned carries no error
C20_Witness ==
    \E c \in Slots :
        /\ Disabling(c)
        /\ calls[c].current[1].unitFileState = STATIC
        /\ Returned(c)
        /\ TimesInvoked(c, DISABLE) = 1
        /\ calls[c].inv[2].verb = DISABLE
        /\ calls[c].inv[2].rc = 0
        /\ ~HasError(c)

\* the same for a unit fetched as masked
C20_WitnessMasked ==
    \E c \in Slots :
        /\ Disabling(c)
        /\ calls[c].current[1].unitFileState = MASKED
        /\ Returned(c)
        /\ TimesInvoked(c, DISABLE) = 1
=============================================================================
